---- MODULE Spec2Model ----
(***************************************************************************)
(* Lamport-style one-time hash signatures (main.go) and the key-reuse      *)
(* forgery (forge.go).                                                     *)
(*                                                                         *)
(* Scaling.  The source works on 32-byte arrays of 8-bit bytes.  The model *)
(* keeps the byte/bit structure (byte i/ByteBits, bit offset               *)
(* (ByteBits-1)-(i%ByteBits), MSB first) but uses MESSAGE_BYTES bytes of   *)
(* ByteBits bits.  A Block used as key material is an opaque value (a      *)
(* natural number); only equality and Hash are applied to it, as in the    *)
(* source.  Strings are tuples: "" is <<>> and the Sprintf result          *)
(* "zlian forge <n>" is <<"zlian forge ", n>>.                             *)
(***************************************************************************)
EXTENDS Integers, Sequences, FiniteSets, TLC

\* ------------------------------------------------------------------ bounds
\* Bytes in a Message (the source has 32).
MESSAGE_BYTES == 2
\* Bits in a byte (the source's uint8 has 8).
ByteBits == 2
\* Longest list of signatures handed to the coverage build.
MaxSigs == 2
\* Number of counter values the producer goroutine is followed for.
MaxCandidates == 10
\* Number of counter values tried one at a time on a built coverage; with
\* 16 every Message of 2 bytes of 2 bits is the digest of one of them.
MaxTried == 16

\* ------------------------------------------------------- program constants
\* q := make(chan string, 8)
QCap == 8
\* for i := 555735188; ; i++
FirstCounter == 555735188

MESSAGE_BITS == MESSAGE_BYTES * ByteBits
Pos == 0 .. (MESSAGE_BITS - 1)
ByteIdx == 0 .. (MESSAGE_BYTES - 1)
\* 0xff at the model's byte width
ByteMask == 2^ByteBits - 1
Byte == 0 .. ByteMask

\* ------------------------------------------------------- uint8 arithmetic
RECURSIVE AndBits(_, _, _)
AndBits(a, b, n) ==
    IF n = 0 THEN 0
    ELSE (a % 2) * (b % 2) + 2 * AndBits(a \div 2, b \div 2, n - 1)

RECURSIVE OrBits(_, _, _)
OrBits(a, b, n) ==
    IF n = 0 THEN 0
    ELSE (IF (a % 2) + (b % 2) > 0 THEN 1 ELSE 0)
         + 2 * OrBits(a \div 2, b \div 2, n - 1)

\* a & b, a | b, ^a, a >> n, a << n on bytes
BitAnd(a, b) == AndBits(a, b, ByteBits)
BitOr(a, b) == OrBits(a, b, ByteBits)
BitNot(a) == ByteMask - a
Shr(a, n) == a \div (2^n)
Shl(a, n) == (a * (2^n)) % (2^ByteBits)

\* ------------------------------------------------------------- data types
\* type Message [MESSAGE_BYTES]byte
Message == [ByteIdx -> Byte]
ZeroMessage == [i \in ByteIdx |-> 0]

\* type Block [MESSAGE_BYTES]byte, as key material: opaque values.  Block 0
\* is Block{} (all zero bytes); 2i+1 and 2i+2 are the secrets a key
\* generation draws for position i; the last value is one more block.
NumBlocks == 2 * MESSAGE_BITS + 2
Block == 0 .. (NumBlocks - 1)
ZeroBlock == 0

\* func (self Block) Hash() Block: a fixed function on blocks.  It is
\* injective except that the last two blocks collide, and ZeroBlock is no
\* hash value.
Hash(b) == IF b + 1 < NumBlocks THEN b + 1 ELSE NumBlocks - 1

ZeroRow == [p \in Pos |-> ZeroBlock]

\* The MSB-first bit of a byte array (forge.go's hint arr[i/8]>>(7-(i%8))&0x01)
BitAt(arr, p) == BitAnd(Shr(arr[p \div ByteBits], (ByteBits - 1) - (p % ByteBits)), 1)

\* ------------------------------------------------------------ main.go
\* func (self PrivateKey) GetPublicKey() PublicKey
GetPublicKey(pri) ==
    [ZeroHash |-> [p \in Pos |-> Hash(pri.ZeroHash[p])],
     OneHash  |-> [p \in Pos |-> Hash(pri.OneHash[p])]]

\* Sign with the bit of byte i taken LSB first (b >> j & 1).
SignLsbFirst(m, pri) ==
    [p \in Pos |->
        LET i == p \div ByteBits
            j == p % ByteBits
            bit == BitAnd(Shr(m[i], j), 1)
        IN  IF bit = 0 THEN pri.ZeroHash[i * ByteBits + j]
                       ELSE pri.OneHash[i * ByteBits + j]]

\* func Sign(msg Message, pri PrivateKey) Signature: the two loops write
\* every index i*8+j once.
Sign(m, pri) ==
    [p \in Pos |->
        LET i == p \div ByteBits
            j == p % ByteBits
            bit == BitAnd(Shr(m[i], (ByteBits - 1) - j), 1)
        IN  IF bit = 0 THEN pri.ZeroHash[i * ByteBits + j]
                       ELSE pri.OneHash[i * ByteBits + j]]

\* func Verify(msg Message, pub PublicKey, sig Signature) bool: false at the
\* first mismatch, true when no index mismatches.
Verify(m, pk, sig) ==
    \A i \in ByteIdx : \A j \in 0 .. (ByteBits - 1) :
        LET bit == BitAnd(Shr(m[i], (ByteBits - 1) - j), 1)
        IN  IF bit = 0
            THEN Hash(sig[i * ByteBits + j]) = pk.ZeroHash[i * ByteBits + j]
            ELSE Hash(sig[i * ByteBits + j]) = pk.OneHash[i * ByteBits + j]

\* ReadHash: MESSAGE_BITS blocks from crypto/rand.  The rows drawn here are
\* the fresh secrets 2p+1 (zero row) and 2p+2 (one row), except that at one
\* position the generator may repeat itself (both rows hold the same
\* block), and that the last position's one row may hold the last block,
\* whose hash collides with that of block 2p+2.
WeakSets == {{}} \cup {{p} : p \in Pos}
ReadZeroRow == [p \in Pos |-> 2 * p + 1]
ReadOneRow(weak, alt) ==
    [p \in Pos |->
        IF p \in weak THEN 2 * p + 1
        ELSE IF alt /\ p = MESSAGE_BITS - 1 THEN NumBlocks - 1
        ELSE 2 * p + 2]

\* func GenerateKey(): the private keys it can return
PrivateKeys ==
    {[ZeroHash |-> ReadZeroRow, OneHash |-> ReadOneRow(w, alt)] :
        w \in WeakSets, alt \in BOOLEAN}

\* ------------------------------------------------------------ strings
\* fmt.Sprintf("zlian forge %d", i)
Sprintf(n) == <<"zlian forge ", n>>
EmptyString == <<>>

\* The byte array of a number, big-endian.
MessageOfInt(v) ==
    [i \in ByteIdx |-> (v \div (2^(ByteBits * ((MESSAGE_BYTES - 1) - i)))) % (2^ByteBits)]

\* func GetMessageFromString(s string) Message: sha256.Sum256 of the string.
\* A fixed mixing function of the string's number stands for the digest; it
\* takes every Message value, consecutive numbers give different digests.
GetMessageFromString(s) ==
    MessageOfInt((13 * (s[2] % (2^MESSAGE_BITS)) + (IF s[1] = "" THEN 1 ELSE 7))
                 % (2^MESSAGE_BITS))

\* ------------------------------------------------------------ forge.go
\* arr[i/8] |= 0x01 << (i % 8): the bit set LSB first.
SetBitLsbFirst(arr, p) ==
    [arr EXCEPT ![p \div ByteBits] = BitOr(@, Shl(1, p % ByteBits))]

\* zeroUsed[i/8] |= 0x01 << (7 - (i % 8))
SetBit(arr, p) ==
    [arr EXCEPT ![p \div ByteBits] = BitOr(@, Shl(1, (ByteBits - 1) - (p % ByteBits)))]

\* The coverage build with the else branch left out: a block that matches
\* neither public value is passed over.
RECURSIVE FoldSigSkip(_, _, _, _)
FoldSigSkip(cov, pk, sig, p) ==
    IF p = MESSAGE_BITS THEN cov
    ELSE LET block == sig[p]
             hash == Hash(block)
         IN  IF pk.ZeroHash[p] = hash
             THEN FoldSigSkip([cov EXCEPT !.zeroUsed = SetBit(@, p),
                                          !.zeroUsedSigs[p] = block], pk, sig, p + 1)
             ELSE IF pk.OneHash[p] = hash
             THEN FoldSigSkip([cov EXCEPT !.oneUsed = SetBit(@, p),
                                          !.oneUsedSigs[p] = block], pk, sig, p + 1)
             ELSE FoldSigSkip(cov, pk, sig, p + 1)

\* The coverage build's loop body for one signature, from block p on: the
\* if / else if / else of lines 127-135.  A block hashing to neither public
\* value panics, with the blocks before it already folded in.
RECURSIVE FoldSig(_, _, _, _)
FoldSig(cov, pk, sig, p) ==
    IF p = MESSAGE_BITS THEN cov
    ELSE LET block == sig[p]
             hash == Hash(block)
         IN  IF pk.ZeroHash[p] = hash
             THEN FoldSig([cov EXCEPT !.zeroUsed = SetBit(@, p),
                                      !.zeroUsedSigs[p] = block], pk, sig, p + 1)
             ELSE IF pk.OneHash[p] = hash
             THEN FoldSig([cov EXCEPT !.oneUsed = SetBit(@, p),
                                      !.oneUsedSigs[p] = block], pk, sig, p + 1)
             ELSE [cov EXCEPT !.panicked = TRUE]

\* Difficulty with zeroUsed[i] | oneUsed[i] for allTaken.
DifficultyOr(zU, oU) ==
    Cardinality({ij \in ByteIdx \X (0 .. (ByteBits - 1)) :
        BitAnd(Shr(BitOr(zU[ij[1]], oU[ij[1]]), (ByteBits - 1) - ij[2]), 1) = 0})

\* The difficulty calculation, lines 139-148: one increment for every byte
\* i and bit j where allTaken >> (7 - j) & 1 is 0.
Difficulty(zU, oU) ==
    Cardinality({ij \in ByteIdx \X (0 .. (ByteBits - 1)) :
        BitAnd(Shr(BitAnd(zU[ij[1]], oU[ij[1]]), (ByteBits - 1) - ij[2]), 1) = 0})

\* forgeable[i] with the zeroUsed term left uncomplemented.
ForgeableByteNoNot(block, zb, ob) ==
    BitOr(BitAnd(block, ob), BitAnd(block, zb))

\* forgeable[i] = block & oneUsed[i]; forgeable[i] |= ^block & zeroUsed[i]
ForgeableByte(block, zb, ob) ==
    BitOr(BitAnd(block, ob), BitAnd(BitNot(block), zb))

\* isForgeable with the byte test inverted (== 0xff for != 0xff).
isForgeableInverted(s, zU, oU) ==
    LET forgeMsg == GetMessageFromString(s)
    IN  IF \E b \in ByteIdx : ForgeableByte(forgeMsg[b], zU[b], oU[b]) = ByteMask
        THEN EmptyString
        ELSE s

\* The isForgeable closure, lines 178-193: the value it sends on output.
isForgeable(s, zU, oU) ==
    LET forgeMsg == GetMessageFromString(s)
    IN  IF \E i \in ByteIdx : ForgeableByte(forgeMsg[i], zU[i], oU[i]) # ByteMask
        THEN EmptyString
        ELSE s

\* Assembly with the two caches exchanged.
AssembleSwapped(message, zSigs, oSigs) ==
    [p \in Pos |->
        IF BitAnd(Shr(message[p \div ByteBits], (ByteBits - 1) - (p % ByteBits)), 1) = 0
        THEN oSigs[p] ELSE zSigs[p]]

\* The consumer's assembly loop, lines 214-223.
Assemble(message, zSigs, oSigs) ==
    [p \in Pos |->
        IF BitAnd(Shr(message[p \div ByteBits], (ByteBits - 1) - (p % ByteBits)), 1) = 0
        THEN zSigs[p] ELSE oSigs[p]]

\* ------------------------------------------------------------ state
VARIABLES
    pri,            \* main: the generated private key (the fixture's in Forge)
    pub,            \* the public key: main's pub, Forge's pub
    msg,            \* main: msg
    signature,      \* main: signature
    result,         \* main: result
    mpc,            \* main's position: "start", "signed", "verified", "idle"
    sigslice,       \* Forge: sigslice
    k,              \* Forge: signatures of sigslice folded so far
    zeroUsed,       \* Forge: zeroUsed
    oneUsed,        \* Forge: oneUsed
    zeroUsedSigs,   \* Forge: zeroUsedSigs
    oneUsedSigs,    \* Forge: oneUsedSigs
    difficulty,     \* Forge: difficulty
    pc,             \* Forge's position: "build", "difficulty", "search",
                    \* "returned", "panic", "idle"
    i,              \* the producer goroutine's counter
    msgString,      \* Forge: msgString
    tasks,          \* the isForgeable goroutines that have not sent yet
    q,              \* the channel q
    retString,      \* Forge's first return value
    forgeSig        \* Forge's second return value

mainVars == <<msg, signature, result, mpc>>
buildVars == <<sigslice, k, zeroUsed, oneUsed, zeroUsedSigs, oneUsedSigs, difficulty>>
searchVars == <<i, msgString, tasks, q, retString, forgeSig>>
vars == <<pri, pub, mainVars, buildVars, pc, searchVars>>

\* The values Forge's locals hold before the coverage build (lines 120-123,
\* 139, 196-197).
ForgeLocalsInit ==
    /\ k = 0
    /\ zeroUsed = ZeroMessage
    /\ oneUsed = ZeroMessage
    /\ zeroUsedSigs = ZeroRow
    /\ oneUsedSigs = ZeroRow
    /\ difficulty = 0
    /\ i = FirstCounter
    /\ msgString = EmptyString
    /\ tasks = {}
    /\ q = <<>>
    /\ retString = EmptyString
    /\ forgeSig = ZeroRow

MainLocalsIdle ==
    /\ msg = ZeroMessage
    /\ signature = ZeroRow
    /\ result = FALSE
    /\ mpc = "idle"

\* ------------------------------------------------------------ main
\* main after GenerateKey: any message may stand for the digest of "test".
InitSign ==
    /\ pri \in PrivateKeys
    /\ pub = GetPublicKey(pri)
    /\ msg = ZeroMessage
    /\ signature = ZeroRow
    /\ result = FALSE
    /\ mpc = "start"
    /\ sigslice = <<>>
    /\ pc = "idle"
    /\ ForgeLocalsInit

\* signature := Sign(msg, pri)
SignStep ==
    /\ mpc = "start"
    /\ \E m \in Message :
        /\ msg' = m
        /\ signature' = Sign(m, pri)
    /\ mpc' = "signed"
    /\ UNCHANGED <<pri, pub, result, buildVars, pc, searchVars>>

\* result := Verify(msg, pub, signature)
VerifyStep ==
    /\ mpc = "signed"
    /\ result' = Verify(msg, pub, signature)
    /\ mpc' = "verified"
    /\ UNCHANGED <<pri, pub, msg, signature, buildVars, pc, searchVars>>

NextSign == SignStep \/ VerifyStep
SpecSign == InitSign /\ [][NextSign]_vars

\* ------------------------------------------------------------ Forge
RECURSIVE SeqsUpTo(_, _)
SeqsUpTo(S, n) ==
    IF n = 0 THEN {<<>>}
    ELSE LET shorter == SeqsUpTo(S, n - 1)
         IN  shorter \cup {Append(sq, x) : sq \in shorter, x \in S}

\* zeroUsed, oneUsed, zeroUsedSigs, oneUsedSigs as declared (lines 120-123).
NewCoverage ==
    [zeroUsed |-> ZeroMessage, oneUsed |-> ZeroMessage,
     zeroUsedSigs |-> ZeroRow, oneUsedSigs |-> ZeroRow, panicked |-> FALSE]

\* The coverage build for one signature of sigslice (one pass of the outer
\* loop, lines 124-137).
FoldSignature ==
    /\ pc = "build"
    /\ k < Len(sigslice)
    /\ LET cov == FoldSig([zeroUsed |-> zeroUsed, oneUsed |-> oneUsed,
                           zeroUsedSigs |-> zeroUsedSigs, oneUsedSigs |-> oneUsedSigs,
                           panicked |-> FALSE],
                          pub, sigslice[k + 1], 0)
       IN  /\ zeroUsed' = cov.zeroUsed
           /\ oneUsed' = cov.oneUsed
           /\ zeroUsedSigs' = cov.zeroUsedSigs
           /\ oneUsedSigs' = cov.oneUsedSigs
           /\ IF cov.panicked
              THEN pc' = "panic" /\ k' = k
              ELSE pc' = "build" /\ k' = k + 1
    /\ UNCHANGED <<pri, pub, mainVars, sigslice, difficulty, searchVars>>

\* The end of the coverage build and the difficulty calculation (lines
\* 138-151); the channel is made and the producer goroutine started next.
CalcDifficulty ==
    /\ pc = "build"
    /\ k = Len(sigslice)
    /\ difficulty' = Difficulty(zeroUsed, oneUsed)
    /\ pc' = "search"
    /\ UNCHANGED <<pri, pub, mainVars, sigslice, k, zeroUsed, oneUsed,
                   zeroUsedSigs, oneUsedSigs, searchVars>>

\* The producer goroutine's loop body (lines 199-203); it runs whether or
\* not Forge has returned.
Spawn ==
    /\ pc \in {"search", "returned"}
    /\ i < FirstCounter + MaxCandidates
    /\ msgString' = Sprintf(i)
    /\ tasks' = tasks \cup {Sprintf(i)}
    /\ i' = i + 1
    /\ UNCHANGED <<pri, pub, mainVars, buildVars, pc, q, retString, forgeSig>>

\* One isForgeable goroutine: its send on the channel, which blocks while
\* the channel holds QCap values.
Send(t) ==
    /\ t \in tasks
    /\ Len(q) < QCap
    /\ q' = Append(q, isForgeable(t, zeroUsed, oneUsed))
    /\ tasks' = tasks \ {t}
    /\ UNCHANGED <<pri, pub, mainVars, buildVars, pc, i, msgString, retString, forgeSig>>

\* The consumer's loop body with break for continue: the loop is left on
\* "" and Forge returns with nothing found.
ConsumeBreak(res) ==
    IF res = EmptyString
    THEN /\ pc' = "returned"
         /\ UNCHANGED <<retString, forgeSig>>
    ELSE /\ retString' = res
         /\ forgeSig' = Assemble(GetMessageFromString(res), zeroUsedSigs, oneUsedSigs)
         /\ pc' = "returned"

\* The consumer's loop body after the receive of res (lines 208-224):
\* continue on "", else assemble the signature and return.
Consume(res) ==
    IF res = EmptyString
    THEN UNCHANGED <<pc, retString, forgeSig>>
    ELSE /\ retString' = res
         /\ forgeSig' = Assemble(GetMessageFromString(res), zeroUsedSigs, oneUsedSigs)
         /\ pc' = "returned"

\* A consumer that goes on receiving after Forge has returned.
RecvAfterReturn ==
    /\ pc \in {"search", "returned"}
    /\ Len(q) > 0
    /\ q' = Tail(q)
    /\ Consume(Head(q))
    /\ UNCHANGED <<pri, pub, mainVars, buildVars, i, msgString, tasks>>

\* The consumer loop (lines 206-225): one receive from q and the loop body.
Recv ==
    /\ pc = "search"
    /\ Len(q) > 0
    /\ q' = Tail(q)
    /\ Consume(Head(q))
    /\ UNCHANGED <<pri, pub, mainVars, buildVars, i, msgString, tasks>>

\* The fixture's messages: the digests of "1", "2", ...
msgslice == [n \in 1 .. MaxSigs |-> GetMessageFromString(<<"", n>>)]

\* The signatures of the first n messages of msgslice.
FixtureSigs(sk, n) == [j \in 1 .. n |-> Sign(msgslice[j], sk)]

\* The fixtures the search is followed for: the key whose rows differ
\* everywhere, and the signatures of the first messages of msgslice, as
\* they are or with the last block of the last signature replaced by
\* Block{}.
ForgeKeys ==
    {[ZeroHash |-> ReadZeroRow, OneHash |-> ReadOneRow({}, FALSE)]}
FixtureLists(sk) ==
    {FixtureSigs(sk, n) : n \in 0 .. MaxSigs}
    \cup {[FixtureSigs(sk, n) EXCEPT ![n][MESSAGE_BITS - 1] = ZeroBlock] :
            n \in 1 .. MaxSigs}
ForgeFixtures ==
    UNION {{[sk |-> sk, sigs |-> sigs] : sigs \in FixtureLists(sk)} : sk \in ForgeKeys}

\* Forge's state before the coverage build, for a fixture of the set F.
ForgeStart(F) ==
    /\ \E f \in F :
        /\ pri = f.sk
        /\ sigslice = f.sigs
    /\ pub = GetPublicKey(pri)
    /\ MainLocalsIdle
    /\ pc = "build"
    /\ ForgeLocalsInit

InitForge == ForgeStart(ForgeFixtures)

Next ==
    \/ FoldSignature
    \/ CalcDifficulty
    \/ Spawn
    \/ \E t \in tasks : Send(t)
    \/ Recv

Spec == InitForge /\ [][Next]_vars

\* The goroutines are scheduled fairly: Forge's own goroutine (the build,
\* then the consumer loop), the producer goroutine, and the isForgeable
\* goroutines, one of which sends whenever the channel has room.
Fairness ==
    /\ WF_vars(FoldSignature \/ CalcDifficulty \/ Recv)
    /\ WF_vars(Spawn)
    /\ WF_vars(\E t \in tasks : Send(t))

\* Under fairness the search is followed for the fixtures that hold all
\* MaxSigs signatures, as Forge's sigslice does.
InitFair == ForgeStart({f \in ForgeFixtures : Len(f.sigs) = MaxSigs})

FairSpec == InitFair /\ [][Next]_vars /\ Fairness

\* ------------------------------------------------- coverage, any input
\* The messages whose signatures a list may hold: all zero, all one,
\* alternating bits, the low half set, and the fixture's messages.
SigMessages ==
    {MessageOfInt(v) : v \in {0, 2^MESSAGE_BITS - 1, (2^MESSAGE_BITS - 1) \div 3,
                              2^(MESSAGE_BITS \div 2) - 1}}
    \cup {msgslice[n] : n \in 1 .. MaxSigs}

\* The signatures a list may hold for a key: those of SigMessages, and the
\* signature of the zero message with its first or last block replaced by
\* Block{} or by the last block.
SigInputs(sk) ==
    {Sign(m, sk) : m \in SigMessages}
    \cup {[Sign(ZeroMessage, sk) EXCEPT ![p] = b] :
            p \in {0, MESSAGE_BITS - 1}, b \in {ZeroBlock, NumBlocks - 1}}

InitCoverage ==
    /\ pri \in PrivateKeys
    /\ sigslice \in SeqsUpTo(SigInputs(pri), MaxSigs)
    /\ pub = GetPublicKey(pri)
    /\ MainLocalsIdle
    /\ pc = "build"
    /\ ForgeLocalsInit

\* The search for one candidate string alone: the string of any counter
\* value goes through isForgeable and the consumer's loop body.
TryCandidate ==
    /\ pc = "search"
    /\ \E n \in FirstCounter .. (FirstCounter + MaxTried - 1) :
          Consume(isForgeable(Sprintf(n), zeroUsed, oneUsed))
    /\ UNCHANGED <<pri, pub, mainVars, buildVars, i, msgString, tasks, q>>

NextCoverage == FoldSignature \/ CalcDifficulty \/ TryCandidate
SpecCoverage == InitCoverage /\ [][NextCoverage]_vars

\* ================================================================ claims
\* The counter values of all candidate strings whose digests are told apart.
AllCounters == FirstCounter .. (FirstCounter + 2^MESSAGE_BITS - 1)
\* The counter values the producer is followed for.
Candidates == FirstCounter .. (FirstCounter + MaxCandidates - 1)

\* Per-bit forgeability of a message under the bitmaps zU, oU: at every
\* position the bitmap of the message's bit is set.
BitForgeable(m, zU, oU) ==
    \A p \in Pos : IF BitAt(m, p) = 0 THEN BitAt(zU, p) = 1 ELSE BitAt(oU, p) = 1

\* Signature j of sigslice has a block that hashes to neither public value.
NoMatch(j) ==
    \E p \in Pos : /\ Hash(sigslice[j][p]) # pub.ZeroHash[p]
                   /\ Hash(sigslice[j][p]) # pub.OneHash[p]

BuildDone == pc \in {"search", "returned"}

\* C1: once main has signed msg with pri and verified the signature
\* against pri's public key, the result is true.
C1_SignThenVerify == mpc = "verified" => result = TRUE

C1_Witness ==
    /\ mpc = "verified"
    /\ result = TRUE
    /\ \E p, r \in Pos : BitAt(msg, p) = 0 /\ BitAt(msg, r) = 1

\* C2: when the search has returned a string, the returned signature
\* (zeroUsedSigs[i] where bit i of the string's digest is 0, oneUsedSigs[i]
\* where it is 1) verifies for that digest under the public key.
C2_ForgedVerifies ==
    pc = "returned" => Verify(GetMessageFromString(retString), pub, forgeSig)

C2_Witness ==
    /\ pc = "returned"
    /\ Len(sigslice) > 1
    /\ \A j \in 1 .. Len(sigslice) : sigslice[j] # forgeSig

\* C3: under fair scheduling, when the search runs and some candidate of
\* the producer has a forgeable digest, the search eventually returns a
\* candidate string with its assembled signature.
C3_EventuallyReturns ==
    (/\ pc = "search"
     /\ \E n \in Candidates :
           BitForgeable(GetMessageFromString(Sprintf(n)), zeroUsed, oneUsed))
    ~> (/\ pc = "returned"
        /\ retString \in {Sprintf(n) : n \in Candidates}
        /\ forgeSig = Assemble(GetMessageFromString(retString), zeroUsedSigs, oneUsedSigs))

C3_Witness ==
    /\ pc = "returned"
    /\ retString \in {Sprintf(n) : n \in Candidates}
    /\ Len(sigslice) > 0

\* C4 (as claimed): after a build without panic, zeroUsed bit i is 1 iff
\* some signature's block i hashes to ZeroHash[i], and oneUsed bit i is 1
\* iff some signature's block i hashes to OneHash[i].
C4_CoverageIff ==
    BuildDone =>
        \A p \in Pos :
            /\ BitAt(zeroUsed, p) = 1
                  <=> \E j \in 1 .. Len(sigslice) : Hash(sigslice[j][p]) = pub.ZeroHash[p]
            /\ BitAt(oneUsed, p) = 1
                  <=> \E j \in 1 .. Len(sigslice) : Hash(sigslice[j][p]) = pub.OneHash[p]

\* C5: when some signature of the list has a block that hashes to neither
\* public value, Forge never gets past the build: no signature with such a
\* block is ever counted as folded, a panic is at such a signature, the
\* search is never started and nothing is returned.
C5_NoMatchAborts ==
    /\ pc = "panic" => (k < Len(sigslice) /\ NoMatch(k + 1))
    /\ (\E j \in 1 .. Len(sigslice) : NoMatch(j)) =>
          /\ pc \in {"build", "panic"}
          /\ \A j \in 1 .. k : ~NoMatch(j)
          /\ i = FirstCounter /\ tasks = {} /\ q = <<>>
          /\ retString = EmptyString /\ forgeSig = ZeroRow

C5_Witness ==
    /\ pc = "panic"
    /\ k > 0
    /\ zeroUsed # ZeroMessage

\* C6: the difficulty is the number of positions at which zeroUsed AND
\* oneUsed is 0: 0 when both are set everywhere, MESSAGE_BITS when neither
\* bitmap has a bit set.
C6_Difficulty ==
    BuildDone =>
        /\ difficulty = Cardinality({p \in Pos :
                            ~(BitAt(zeroUsed, p) = 1 /\ BitAt(oneUsed, p) = 1)})
        /\ (\A p \in Pos : BitAt(zeroUsed, p) = 1 /\ BitAt(oneUsed, p) = 1)
              => difficulty = 0
        /\ (\A p \in Pos : BitAt(zeroUsed, p) = 0 /\ BitAt(oneUsed, p) = 0)
              => difficulty = MESSAGE_BITS

C6_Witness ==
    /\ BuildDone
    /\ difficulty = 0
    /\ \A p \in Pos : BitAt(zeroUsed, p) = 1 /\ BitAt(oneUsed, p) = 1

\* C7 (as claimed): for sig = Sign(msg, pri), every other message that
\* isForgeable rejects under the coverage built from sig alone fails
\* Verify with sig.
C7_NoReuse ==
    mpc = "signed" =>
        LET cov == FoldSig(NewCoverage, pub, signature, 0)
        IN  \A n \in AllCounters :
                LET m2 == GetMessageFromString(Sprintf(n))
                IN  (/\ m2 # msg
                     /\ ~cov.panicked
                     /\ isForgeable(Sprintf(n), cov.zeroUsed, cov.oneUsed) = EmptyString)
                    => ~Verify(m2, pub, signature)

\* C8: every value in the channel is "" or a string the producer made
\* whose digest is forgeable bit by bit; a task sends "" for a digest that
\* is not; what the consumer returns is a produced string, never "", with
\* a digest forgeable bit by bit.
C8_OnlyForgeableReturned ==
    /\ [](/\ \A x \in 1 .. Len(q) :
               \/ q[x] = EmptyString
               \/ /\ q[x] \in {Sprintf(n) : n \in FirstCounter .. (i - 1)}
                  /\ BitForgeable(GetMessageFromString(q[x]), zeroUsed, oneUsed)
          /\ pc = "returned" =>
               /\ retString # EmptyString
               /\ retString \in {Sprintf(n) : n \in FirstCounter .. (i - 1)}
               /\ BitForgeable(GetMessageFromString(retString), zeroUsed, oneUsed))
    /\ [][\A t \in tasks :
            (t \notin tasks' /\ ~BitForgeable(GetMessageFromString(t), zeroUsed, oneUsed))
               => q' = Append(q, EmptyString)]_vars

C8_Witness ==
    /\ pc = "returned"
    /\ \E x \in 1 .. Len(q) : q[x] = EmptyString
    /\ \E x \in 1 .. Len(q) : q[x] # EmptyString

\* C9: when the built coverage has a position set in neither bitmap, no
\* candidate string is forgeable, only "" is ever in the channel, and the
\* search has not returned.
C9_NeverReturns ==
    (BuildDone /\ \E p \in Pos : BitAt(zeroUsed, p) = 0 /\ BitAt(oneUsed, p) = 0)
    => /\ pc = "search"
       /\ retString = EmptyString
       /\ \A x \in 1 .. Len(q) : q[x] = EmptyString
       /\ \A n \in Candidates : isForgeable(Sprintf(n), zeroUsed, oneUsed) = EmptyString

C9_Witness ==
    /\ pc = "search"
    /\ \E p \in Pos : BitAt(zeroUsed, p) = 0 /\ BitAt(oneUsed, p) = 0
    /\ i = FirstCounter + MaxCandidates
    /\ tasks = {}
    /\ q = <<>>

\* C10: the channel never holds more than QCap values; after Forge has
\* returned the producer can still spawn, nothing is received (the channel
\* only grows), and once it is full no pending task gets its send through.
C10_NoCancellation ==
    /\ [](Len(q) <= QCap)
    /\ []((pc = "returned" /\ i < FirstCounter + MaxCandidates) => ENABLED Spawn)
    /\ [][pc = "returned" =>
            /\ pc' = "returned"
            /\ Len(q') >= Len(q)
            /\ SubSeq(q', 1, Len(q)) = q]_vars
    /\ [][(pc = "returned" /\ Len(q) = QCap) =>
            (q' = q /\ tasks \subseteq tasks')]_vars

C10_Witness ==
    /\ pc = "returned"
    /\ Len(q) = QCap
    /\ tasks # {}

====
